---- MODULE Spec2Model ----
(***************************************************************************)
(* A model of the ColorLabel widget (package colorlabel): the label's      *)
(* fields, its renderer, the setters, the gesture handlers and the         *)
(* truncation of the displayed text.                                       *)
(*                                                                         *)
(* Strings are sequences of code units; a float32 is a record that is      *)
(* either a number or NaN; a value of type `any` is a record of its        *)
(* dynamic type and its value.                                             *)
(***************************************************************************)
EXTENDS Integers, Sequences, FiniteSets, TLC

VARIABLES label, renderer, theme, lastCall,
          OnTapped, OnTappedSecondary, OnDoubleTapped, invoked,
          tt

vars == <<label, renderer, theme, lastCall,
          OnTapped, OnTappedSecondary, OnDoubleTapped, invoked, tt>>

eventVars == <<OnTapped, OnTappedSecondary, OnDoubleTapped, invoked>>

(***************************************************************************)
(* Bounds of the model.                                                    *)
(***************************************************************************)
\* longest text given to the pure truncation function
MaxLen == 3
\* longest text given to the widget
MaxTextLen == 2
\* widest size handed to Layout and to the truncation function
MaxWidth == 5
\* largest keyboard modifier mask of a mouse event
MaxModifier == 2

(***************************************************************************)
(* float32: a number or NaN.  Every comparison with NaN is false and every *)
(* arithmetic operation on NaN gives NaN.                                  *)
(***************************************************************************)
F(n) == [nan |-> FALSE, v |-> n]
NaN == [nan |-> TRUE, v |-> 0]
FLeq(a, b) == ~a.nan /\ ~b.nan /\ a.v <= b.v
FGt(a, b) == ~a.nan /\ ~b.nan /\ a.v > b.v
FAdd(a, b) == IF a.nan \/ b.nan THEN NaN ELSE F(a.v + b.v)
FSub(a, b) == IF a.nan \/ b.nan THEN NaN ELSE F(a.v - b.v)
FMul(a, b) == IF a.nan \/ b.nan THEN NaN ELSE F(a.v * b.v)

(***************************************************************************)
(* Strings and runes.  A string is a sequence of code units: "i" and "W"   *)
(* are ASCII letters, "xFF" is a byte that is not valid UTF-8, "uFFFD" is  *)
(* the encoding of the replacement character and "ELL" the encoding of the *)
(* ellipsis U+2026.  []rune(s) decodes an invalid byte as U+FFFD, and      *)
(* string(r) encodes every rune as itself.                                 *)
(***************************************************************************)
InputUnits == {"i", "W", "xFF"}

ToRunes(s) == [k \in 1..Len(s) |-> IF s[k] = "xFF" THEN "uFFFD" ELSE s[k]]
FromRunes(r) == [k \in 1..Len(r) |-> r[k]]

ellipsis == <<"ELL">>

StringsOver(units, n) == UNION {[1..k -> units] : k \in 0..n}

(***************************************************************************)
(* The toolkit's text measurement and theme values.                        *)
(***************************************************************************)
Padding == 1
ThemeTextSize == 1
TextStyles == {[Bold |-> FALSE], [Bold |-> TRUE]}
DefaultTextStyle == [Bold |-> FALSE]

Advance(rune, style) ==
    (IF rune \in {"W", "uFFFD"} THEN 2 ELSE 1) + (IF style.Bold THEN 1 ELSE 0)

RECURSIVE SumAdvance(_, _)
SumAdvance(r, style) ==
    IF Len(r) = 0 THEN 0
    ELSE Advance(r[1], style) + SumAdvance(Tail(r), style)

\* fyne.MeasureText(s, size, style).Width
MeasureText(s, size, style) == FMul(size, F(SumAdvance(ToRunes(s), style)))

(***************************************************************************)
(* truncateText                                                            *)
(***************************************************************************)
\* the loop with the ellipsis left out of the measured width
RECURSIVE TrimLoopNoEllipsisWidth(_, _, _, _)
TrimLoopNoEllipsisWidth(r, ellW, maxWidth, text) ==
    IF Len(r) > 0
    THEN LET r1 == SubSeq(r, 1, Len(r) - 1)
         IN  IF FLeq(MeasureText(FromRunes(r1), text.TextSize, text.TextStyle), maxWidth)
             THEN FromRunes(r1) \o ellipsis
             ELSE TrimLoopNoEllipsisWidth(r1, ellW, maxWidth, text)
    ELSE ellipsis

\* the loop of truncateText: drop the last rune, return the first fit
RECURSIVE TrimLoop(_, _, _, _)
TrimLoop(r, ellW, maxWidth, text) ==
    IF Len(r) > 0
    THEN LET r1 == SubSeq(r, 1, Len(r) - 1)
         IN  IF FLeq(FAdd(MeasureText(FromRunes(r1), text.TextSize, text.TextStyle),
                          ellW), maxWidth)
             THEN FromRunes(r1) \o ellipsis
             ELSE TrimLoop(r1, ellW, maxWidth, text)
    ELSE ellipsis

\* truncateText with the padding not taken off the width
truncateTextNoPadding(l, s, maxWidth, text) ==
    IF ~l.truncate THEN s
    ELSE LET ellW == MeasureText(ellipsis, text.TextSize, text.TextStyle)
             r == ToRunes(s)
         IN  IF FLeq(MeasureText(s, text.TextSize, text.TextStyle), maxWidth)
             THEN s
             ELSE TrimLoop(r, ellW, maxWidth, text)

truncateText(l, s, maxWidth, text) ==
    IF ~l.truncate THEN s
    ELSE LET avail == FSub(maxWidth, FMul(F(Padding), F(2)))
             ellW == MeasureText(ellipsis, text.TextSize, text.TextStyle)
             r == ToRunes(s)
         IN  IF FLeq(MeasureText(s, text.TextSize, text.TextStyle), avail)
             THEN s
             ELSE TrimLoop(r, ellW, avail, text)

(***************************************************************************)
(* Colours.  A colour argument has type `any`: its dynamic type and value. *)
(* "RGBA" and "nil" stand for the types the switches do not list.          *)
(***************************************************************************)
AnyVal(type, val) == [type |-> type, val |-> val]

ColorNameForeground == AnyVal("ThemeColorName", "foreground")
Transparent == AnyVal("Alpha16", "0000")
Red == AnyVal("NRGBA", "ff0000ff")

ColorArgs ==
    {AnyVal("string", ""), AnyVal("string", "error"),
     AnyVal("ThemeColorName", ""), ColorNameForeground,
     Red, AnyVal("RGBA", "00ff00ff"), AnyVal("nil", "nil")}

Themes == {"light", "dark"}

\* theme.Color(name) under theme th; a name the theme does not know is transparent
ThemeColor(th, name) ==
    CASE name = "foreground" -> AnyVal("NRGBA", IF th = "light" THEN "000000ff" ELSE "ffffffff")
      [] name = "error" -> AnyVal("NRGBA", IF th = "light" THEN "f44336ff" ELSE "b00020ff")
      [] OTHER -> AnyVal("NRGBA", "00000000")

\* getColor with the names resolved against the theme the program started with
getColorOfFirstTheme(c) ==
    CASE c.type = "string" -> ThemeColor("light", c.val)
      [] c.type = "ThemeColorName" -> ThemeColor("light", c.val)
      [] c.type = "NRGBA" -> c
      [] c.type = "Alpha16" -> c
      [] c.type = "Gray16" -> c
      [] OTHER -> Transparent

getColor(c) ==
    CASE c.type = "string" -> ThemeColor(theme, c.val)
      [] c.type = "ThemeColorName" -> ThemeColor(theme, c.val)
      [] c.type = "NRGBA" -> c
      [] c.type = "Alpha16" -> c
      [] c.type = "Gray16" -> c
      [] OTHER -> Transparent

\* c == "" where c is an interface value: equal only to the string ""
EqEmptyString(c) == c.type = "string" /\ c.val = ""

\* the type switch on backColor in NewColorLabel
NewBackColor(backColor) ==
    CASE backColor.type \in {"ThemeColorName", "string"} ->
             [ok |-> TRUE,
              val |-> IF EqEmptyString(backColor) THEN Transparent ELSE backColor]
      [] backColor.type \in {"NRGBA", "Alpha16", "Gray16"} ->
             [ok |-> TRUE, val |-> backColor]
      [] OTHER -> [ok |-> FALSE, val |-> backColor]

\* the type switch on txtColor in NewColorLabel
NewTxtColor(txtColor) ==
    CASE txtColor.type \in {"ThemeColorName", "string"} ->
             [ok |-> TRUE,
              val |-> IF EqEmptyString(txtColor) THEN ColorNameForeground ELSE txtColor]
      [] txtColor.type \in {"NRGBA", "Alpha16", "Gray16"} ->
             [ok |-> TRUE, val |-> txtColor]
      [] OTHER -> [ok |-> FALSE, val |-> txtColor]

\* the type switch of SetTextColor with no default case
TxtColorSwitchNoDefault(txtColor) ==
    CASE txtColor.type \in {"ThemeColorName", "string"} ->
             [ok |-> TRUE,
              val |-> IF EqEmptyString(txtColor) THEN ColorNameForeground ELSE txtColor]
      [] OTHER -> [ok |-> TRUE, val |-> txtColor]

\* the type switch of SetTextColor
TxtColorSwitch(txtColor) ==
    CASE txtColor.type \in {"ThemeColorName", "string"} ->
             [ok |-> TRUE,
              val |-> IF EqEmptyString(txtColor) THEN ColorNameForeground ELSE txtColor]
      [] txtColor.type \in {"NRGBA", "Alpha16", "Gray16"} ->
             [ok |-> TRUE, val |-> txtColor]
      [] OTHER -> [ok |-> FALSE, val |-> txtColor]

\* the type switch of SetBackgroundColor
BackColorSwitch(backColor) ==
    CASE backColor.type \in {"ThemeColorName", "string"} ->
             [ok |-> TRUE,
              val |-> IF EqEmptyString(backColor) THEN Transparent ELSE backColor]
      [] backColor.type \in {"NRGBA", "Alpha16", "Gray16"} ->
             [ok |-> TRUE, val |-> backColor]
      [] OTHER -> [ok |-> FALSE, val |-> backColor]

(***************************************************************************)
(* The label and its renderer.                                             *)
(***************************************************************************)
\* no label constructed yet
NoLabel ==
    [constructed |-> FALSE, fullText |-> <<>>, bgColor |-> Transparent,
     fgColor |-> Transparent, textScale |-> F(0), textStyle |-> DefaultTextStyle,
     truncate |-> FALSE, lastKeyModifier |-> 0]

\* no renderer created yet
NoRenderer ==
    [exists |-> FALSE, Text |-> <<>>, TextSize |-> F(0),
     TextStyle |-> DefaultTextStyle, Color |-> Transparent,
     FillColor |-> Transparent, maxWidth |-> F(0),
     textW |-> F(0), textX |-> F(0), bgW |-> F(0), bgX |-> F(0)]

Call(op, ret) == [op |-> op, ret |-> ret]

\* tScale <= 0 ? 1 : tScale
ScaleOrOne(tScale) == IF FLeq(tScale, F(0)) THEN F(1) ELSE tScale

\* the struct literal of NewColorLabel
ColorLabel(s, txtColor, backColor, tScale) ==
    [constructed |-> TRUE, fullText |-> s, bgColor |-> backColor,
     fgColor |-> txtColor, textScale |-> tScale, textStyle |-> DefaultTextStyle,
     truncate |-> FALSE, lastKeyModifier |-> 0]

\* ColorLabel.CreateRenderer: the renderer of label l
CreateRenderer(l) ==
    [exists |-> TRUE, Text |-> l.fullText, TextSize |-> F(ThemeTextSize),
     TextStyle |-> DefaultTextStyle, Color |-> getColor(l.fgColor),
     FillColor |-> getColor(l.bgColor), maxWidth |-> F(0),
     textW |-> F(0), textX |-> F(0), bgW |-> F(0), bgX |-> F(0)]

\* ColorLabelRenderer.Refresh: renderer r of widget w, refreshed
Refresh(r, w) ==
    LET size == FMul(F(ThemeTextSize), w.textScale)
        text == [TextSize |-> size, TextStyle |-> w.textStyle]
    IN  [r EXCEPT !.TextSize = size,
                  !.TextStyle = w.textStyle,
                  !.Text = truncateText(w, w.fullText, r.maxWidth, text),
                  !.Color = getColor(w.fgColor),
                  !.FillColor = getColor(w.bgColor)]

\* l.Refresh() of the embedded BaseWidget: refreshes the widget's renderer.
\* With no renderer cached yet the toolkit either has nothing to refresh or
\* creates the renderer first (lazy).
WidgetRefresh(r, l, lazy) ==
    IF r.exists THEN Refresh(r, l)
    ELSE IF lazy THEN Refresh(CreateRenderer(l), l)
    ELSE r

(***************************************************************************)
(* The inputs the operations are given.                                    *)
(***************************************************************************)
Scales == {F(-1), F(0), F(1), F(2), NaN}
\* a *fyne.TextStyle: nil or a pointer to a style
StyleArgs ==
    {[isNil |-> TRUE, style |-> DefaultTextStyle]}
        \cup {[isNil |-> FALSE, style |-> st] : st \in TextStyles}

Init ==
    /\ label = NoLabel
    /\ renderer = NoRenderer
    /\ theme = "light"
    /\ lastCall = Call("none", "none")
    /\ OnTapped = FALSE
    /\ OnTappedSecondary = FALSE
    /\ OnDoubleTapped = FALSE
    /\ invoked = <<>>
    /\ tt = <<>>

(***************************************************************************)
(* Construction and the renderer's operations.                             *)
(***************************************************************************)
NewColorLabel(s, txtColor, backColor, tScale) ==
    /\ ~label.constructed
    /\ LET back == NewBackColor(backColor)
           txt == NewTxtColor(txtColor)
       IN  IF ~back.ok \/ ~txt.ok
           THEN /\ label' = label
                /\ lastCall' = Call("NewColorLabel", "nil")
           ELSE /\ label' = ColorLabel(s, txt.val, back.val, ScaleOrOne(tScale))
                /\ lastCall' = Call("NewColorLabel", "label")
    /\ UNCHANGED <<renderer, theme, eventVars, tt>>

\* the toolkit creates the widget's renderer, once
DoCreateRenderer ==
    /\ label.constructed
    /\ ~renderer.exists
    /\ renderer' = CreateRenderer(label)
    /\ lastCall' = Call("CreateRenderer", "renderer")
    /\ UNCHANGED <<label, theme, eventVars, tt>>

\* ColorLabelRenderer.Layout; only the horizontal extent is modelled
Layout(size) ==
    /\ renderer.exists
    /\ LET pad == F(Padding)
       IN  renderer' = [renderer EXCEPT
                            !.maxWidth = size.Width,
                            !.textW = FSub(size.Width, FMul(F(2), pad)),
                            !.bgW = size.Width,
                            !.textX = pad,
                            !.bgX = F(0)]
    /\ lastCall' = Call("Layout", "none")
    /\ UNCHANGED <<label, theme, eventVars, tt>>

\* the toolkit calls ColorLabelRenderer.Refresh
DoRefresh ==
    /\ renderer.exists
    /\ renderer' = Refresh(renderer, label)
    /\ lastCall' = Call("Refresh", "none")
    /\ UNCHANGED <<label, theme, eventVars, tt>>

\* the user switches the theme of the application
ThemeChange ==
    /\ \E th \in Themes \ {theme} : theme' = th
    /\ lastCall' = Call("ThemeChange", "none")
    /\ UNCHANGED <<label, renderer, eventVars, tt>>

(***************************************************************************)
(* The setters.  Each Do... gives the label, the renderer and the error    *)
(* after the call on label l with renderer r.                              *)
(***************************************************************************)
After(l, r, err) == [label |-> l, renderer |-> r, err |-> err]

DoSetTextColor(l, r, txtColor, lazy) ==
    LET sw == TxtColorSwitch(txtColor)
        l2 == [l EXCEPT !.fgColor = sw.val]
    IN  IF ~sw.ok THEN After(l, r, "error")
        ELSE After(l2, WidgetRefresh(r, l2, lazy), "nil")

DoSetBackgroundColor(l, r, backColor, lazy) ==
    LET sw == BackColorSwitch(backColor)
        l2 == [l EXCEPT !.bgColor = sw.val]
    IN  IF ~sw.ok THEN After(l, r, "error")
        ELSE After(l2, WidgetRefresh(r, l2, lazy), "nil")

SetText(s) ==
    /\ label.constructed
    /\ \E lazy \in BOOLEAN :
         LET l2 == [label EXCEPT !.fullText = s]
         IN  /\ label' = l2
             /\ renderer' = WidgetRefresh(renderer, l2, lazy)
    /\ lastCall' = Call("SetText", "none")
    /\ UNCHANGED <<theme, eventVars, tt>>

SetTextColor(txtColor) ==
    /\ label.constructed
    /\ \E lazy \in BOOLEAN :
         LET res == DoSetTextColor(label, renderer, txtColor, lazy)
         IN  /\ label' = res.label
             /\ renderer' = res.renderer
             /\ lastCall' = Call("SetTextColor", res.err)
    /\ UNCHANGED <<theme, eventVars, tt>>

SetBackgroundColor(backColor) ==
    /\ label.constructed
    /\ \E lazy \in BOOLEAN :
         LET res == DoSetBackgroundColor(label, renderer, backColor, lazy)
         IN  /\ label' = res.label
             /\ renderer' = res.renderer
             /\ lastCall' = Call("SetBackgroundColor", res.err)
    /\ UNCHANGED <<theme, eventVars, tt>>

SetTextScale(tScale) ==
    /\ label.constructed
    /\ \E lazy \in BOOLEAN :
         LET l2 == [label EXCEPT !.textScale = ScaleOrOne(tScale)]
         IN  /\ label' = l2
             /\ renderer' = WidgetRefresh(renderer, l2, lazy)
    /\ lastCall' = Call("SetTextScale", "none")
    /\ UNCHANGED <<theme, eventVars, tt>>

SetTextStyle(textStyle) ==
    /\ label.constructed
    /\ \E lazy \in BOOLEAN :
         LET l2 == [label EXCEPT !.textStyle =
                        IF ~textStyle.isNil THEN textStyle.style
                        ELSE DefaultTextStyle]
         IN  /\ label' = l2
             /\ renderer' = WidgetRefresh(renderer, l2, lazy)
    /\ lastCall' = Call("SetTextStyle", "none")
    /\ UNCHANGED <<theme, eventVars, tt>>

\* the error of SetTextColor is dropped
SetTextWithColor(txt, txtColor) ==
    /\ label.constructed
    /\ \E lazy \in BOOLEAN :
         LET l2 == [label EXCEPT !.fullText = txt]
             res == DoSetTextColor(l2, renderer, txtColor, lazy)
         IN  /\ label' = res.label
             /\ renderer' = res.renderer
    /\ lastCall' = Call("SetTextWithColor", "none")
    /\ UNCHANGED <<theme, eventVars, tt>>

SetTruncate(tr) ==
    /\ label.constructed
    /\ \E lazy \in BOOLEAN :
         LET l2 == [label EXCEPT !.truncate = tr]
         IN  /\ label' = l2
             /\ renderer' = WidgetRefresh(renderer, l2, lazy)
    /\ lastCall' = Call("SetTruncate", "none")
    /\ UNCHANGED <<theme, eventVars, tt>>

(***************************************************************************)
(* The widget with every colour argument, on a few texts and sizes.        *)
(***************************************************************************)
Texts == {<<>>, <<"W">>}
Sizes == {[Width |-> F(0)], [Width |-> F(MaxWidth)]}
FewScales == {F(0), F(1)}
FewStyles == {st \in StyleArgs : st.isNil}

Next ==
    \/ \E s \in Texts, txtColor \in ColorArgs, backColor \in ColorArgs, tScale \in FewScales :
           NewColorLabel(s, txtColor, backColor, tScale)
    \/ DoCreateRenderer
    \/ \E size \in Sizes : Layout(size)
    \/ DoRefresh
    \/ ThemeChange
    \/ \E s \in Texts : SetText(s)
    \/ \E c \in ColorArgs : SetTextColor(c)
    \/ \E c \in ColorArgs : SetBackgroundColor(c)
    \/ \E tScale \in FewScales : SetTextScale(tScale)
    \/ \E st \in FewStyles : SetTextStyle(st)
    \/ \E s \in Texts, c \in ColorArgs : SetTextWithColor(s, c)
    \/ \E tr \in BOOLEAN : SetTruncate(tr)

Spec == Init /\ [][Next]_vars

(***************************************************************************)
(* The widget with every text and size, on a few colour arguments.         *)
(***************************************************************************)
RenderTexts == StringsOver({"W"}, MaxTextLen) \cup {<<"xFF", "W">>}
RenderSizes == {[Width |-> F(w)] : w \in 0..MaxWidth}
RenderColors == {Red, AnyVal("RGBA", "00ff00ff")}

NextRender ==
    \/ \E s \in RenderTexts, tScale \in Scales :
           NewColorLabel(s, Red, Red, tScale)
    \/ DoCreateRenderer
    \/ \E size \in RenderSizes : Layout(size)
    \/ DoRefresh
    \/ \E s \in RenderTexts : SetText(s)
    \/ \E c \in RenderColors : SetTextColor(c)
    \/ \E c \in RenderColors : SetBackgroundColor(c)
    \/ \E tScale \in Scales : SetTextScale(tScale)
    \/ \E st \in StyleArgs : SetTextStyle(st)
    \/ \E s \in RenderTexts, c \in RenderColors : SetTextWithColor(s, c)
    \/ \E tr \in BOOLEAN : SetTruncate(tr)

SpecRender == Init /\ [][NextRender]_vars

(***************************************************************************)
(* The gesture handlers.  A callback is a field that is nil or holds a     *)
(* function of the user; `invoked` lists the callbacks the last handler    *)
(* called.                                                                 *)
(***************************************************************************)
SetOnTapped(f) ==
    /\ label.constructed
    /\ OnTapped' = f
    /\ invoked' = <<>>
    /\ lastCall' = Call("SetOnTapped", "none")
    /\ UNCHANGED <<label, renderer, theme, OnTappedSecondary, OnDoubleTapped, tt>>

SetOnTappedSecondary(f) ==
    /\ label.constructed
    /\ OnTappedSecondary' = f
    /\ invoked' = <<>>
    /\ lastCall' = Call("SetOnTappedSecondary", "none")
    /\ UNCHANGED <<label, renderer, theme, OnTapped, OnDoubleTapped, tt>>

SetOnDoubleTapped(f) ==
    /\ label.constructed
    /\ OnDoubleTapped' = f
    /\ invoked' = <<>>
    /\ lastCall' = Call("SetOnDoubleTapped", "none")
    /\ UNCHANGED <<label, renderer, theme, OnTapped, OnTappedSecondary, tt>>

\* Tapped calling the callback of the double tap
TappedCallsOnDoubleTapped ==
    /\ label.constructed
    /\ invoked' = IF OnDoubleTapped THEN <<"OnDoubleTapped">> ELSE <<>>
    /\ lastCall' = Call("Tapped", "none")
    /\ UNCHANGED <<label, renderer, theme, OnTapped, OnTappedSecondary, OnDoubleTapped, tt>>

Tapped ==
    /\ label.constructed
    /\ invoked' = IF OnTapped THEN <<"OnTapped">> ELSE <<>>
    /\ lastCall' = Call("Tapped", "none")
    /\ UNCHANGED <<label, renderer, theme, OnTapped, OnTappedSecondary, OnDoubleTapped, tt>>

TappedSecondary ==
    /\ label.constructed
    /\ invoked' = IF OnTappedSecondary THEN <<"OnTappedSecondary">> ELSE <<>>
    /\ lastCall' = Call("TappedSecondary", "none")
    /\ UNCHANGED <<label, renderer, theme, OnTapped, OnTappedSecondary, OnDoubleTapped, tt>>

DoubleTapped ==
    /\ label.constructed
    /\ invoked' = IF OnDoubleTapped THEN <<"OnDoubleTapped">> ELSE <<>>
    /\ lastCall' = Call("DoubleTapped", "none")
    /\ UNCHANGED <<label, renderer, theme, OnTapped, OnTappedSecondary, OnDoubleTapped, tt>>

MouseDown ==
    /\ label.constructed
    /\ invoked' = <<>>
    /\ lastCall' = Call("MouseDown", "none")
    /\ UNCHANGED <<label, renderer, theme, OnTapped, OnTappedSecondary, OnDoubleTapped, tt>>

MouseUp(ev) ==
    /\ label.constructed
    /\ label' = [label EXCEPT !.lastKeyModifier = ev.Modifier]
    /\ invoked' = <<>>
    /\ lastCall' = Call("MouseUp", "none")
    /\ UNCHANGED <<renderer, theme, OnTapped, OnTappedSecondary, OnDoubleTapped, tt>>

MouseEvents == {[Modifier |-> m] : m \in 0..MaxModifier}

NextEvents ==
    \/ \E s \in Texts, tScale \in FewScales : NewColorLabel(s, Red, Red, tScale)
    \/ DoCreateRenderer
    \/ \E size \in Sizes : Layout(size)
    \/ \E tr \in BOOLEAN : SetTruncate(tr)
    \/ \E f \in BOOLEAN : SetOnTapped(f)
    \/ \E f \in BOOLEAN : SetOnTappedSecondary(f)
    \/ \E f \in BOOLEAN : SetOnDoubleTapped(f)
    \/ Tapped
    \/ TappedSecondary
    \/ DoubleTapped
    \/ MouseDown
    \/ \E ev \in MouseEvents : MouseUp(ev)

SpecEvents == Init /\ [][NextEvents]_vars

(***************************************************************************)
(* truncateText as a function of its inputs: the label's truncate flag,    *)
(* the text, the width and the size and style of the canvas text.          *)
(***************************************************************************)
TruncateInputs ==
    [truncate : BOOLEAN,
     s : StringsOver(InputUnits, MaxLen),
     maxWidth : {F(w) : w \in 0..MaxWidth} \cup {NaN},
     TextSize : {F(1), F(2), NaN},
     TextStyle : TextStyles]

InitTruncate ==
    /\ label = NoLabel
    /\ renderer = NoRenderer
    /\ theme = "light"
    /\ lastCall = Call("none", "none")
    /\ OnTapped = FALSE
    /\ OnTappedSecondary = FALSE
    /\ OnDoubleTapped = FALSE
    /\ invoked = <<>>
    /\ \E in \in TruncateInputs : tt = [in |-> in, done |-> FALSE, out |-> <<>>]

CallTruncateText ==
    /\ ~tt.done
    /\ tt' = [tt EXCEPT !.done = TRUE,
                        !.out = truncateText(tt.in, tt.in.s, tt.in.maxWidth, tt.in)]
    /\ UNCHANGED <<label, renderer, theme, lastCall, eventVars>>

NextTruncate == CallTruncateText

SpecTruncate == InitTruncate /\ [][NextTruncate]_vars

(***************************************************************************)
(* Properties of truncateText (under SpecTruncate).                        *)
(***************************************************************************)
\* the width left for the text: maxWidth minus the padding on both sides
Available(maxWidth) == FSub(maxWidth, F(2 * Padding))

TruncWidth(s) == MeasureText(s, tt.in.TextSize, tt.in.TextStyle)
TruncFits(p) ==
    FLeq(FAdd(TruncWidth(p), TruncWidth(ellipsis)), Available(tt.in.maxWidth))
\* truncateText was called, truncate enabled, on a text wider than available
TruncTooWide ==
    /\ tt.done
    /\ tt.in.truncate
    /\ FGt(TruncWidth(tt.in.s), Available(tt.in.maxWidth))

\* C1 as stated: a text wider than the available width is returned as a
\* strict prefix of the original string followed by one ellipsis, prefix and
\* ellipsis together no wider than the available width, or as the bare
\* ellipsis; and as the bare ellipsis only when no non-empty prefix with the
\* ellipsis fits.
C1_PrefixOfOriginal ==
    TruncTooWide =>
        /\ \/ \E k \in 0..(Len(tt.in.s) - 1) :
                  /\ tt.out = SubSeq(tt.in.s, 1, k) \o ellipsis
                  /\ TruncFits(SubSeq(tt.in.s, 1, k))
           \/ tt.out = ellipsis
        /\ tt.out = ellipsis =>
               \A k \in 1..Len(tt.in.s) : ~TruncFits(SubSeq(tt.in.s, 1, k))

\* C1 amended: a text wider than the available width is returned as a strict
\* prefix of the runes of the original (an invalid UTF-8 byte read as U+FFFD)
\* followed by one ellipsis, prefix and ellipsis together no wider than the
\* available width, or as the bare ellipsis; and as the bare ellipsis only
\* when no non-empty prefix with the ellipsis fits.
C1_PrefixOfRunes ==
    TruncTooWide =>
        LET r == ToRunes(tt.in.s)
        IN  /\ \/ \E k \in 0..(Len(r) - 1) :
                      /\ tt.out = FromRunes(SubSeq(r, 1, k)) \o ellipsis
                      /\ TruncFits(FromRunes(SubSeq(r, 1, k)))
               \/ tt.out = ellipsis
            /\ tt.out = ellipsis =>
                   \A k \in 1..Len(r) : ~TruncFits(FromRunes(SubSeq(r, 1, k)))

\* a text that starts with an invalid byte is cut to its first rune and the ellipsis
C1_Witness ==
    /\ TruncTooWide
    /\ Len(tt.in.s) >= 2
    /\ tt.in.s[1] = "xFF"
    /\ tt.out = <<"uFFFD", "ELL">>

(***************************************************************************)
(* Properties of the rendered text (under SpecRender).                     *)
(***************************************************************************)
DisplayedWidth == MeasureText(renderer.Text, renderer.TextSize, renderer.TextStyle)

\* C2 as stated: in every state with a renderer the displayed text is the
\* full text or a strict prefix of it followed by one ellipsis, and with
\* truncate enabled it is no wider than the available width.
C2_DisplayedAlways ==
    renderer.exists =>
        /\ \/ renderer.Text = label.fullText
           \/ \E k \in 0..(Len(label.fullText) - 1) :
                  renderer.Text = SubSeq(label.fullText, 1, k) \o ellipsis
        /\ label.truncate =>
               FLeq(DisplayedWidth, Available(renderer.maxWidth))

\* a call that refreshes the renderer of the label, when there is one
Refreshing(call) ==
    \/ call.op \in {"Refresh", "SetText", "SetTextScale", "SetTextStyle", "SetTruncate"}
    \/ call \in {Call("SetTextColor", "nil"), Call("SetBackgroundColor", "nil")}

\* the last call refreshed the renderer
JustRefreshed == renderer.exists /\ Refreshing(lastCall)

\* C2 amended: right after every refresh of the renderer the displayed text
\* is the full text, or a prefix of the runes of the full text (strict unless
\* the full text is empty) followed by one ellipsis; and with truncate enabled
\* it is no wider than the available width unless it is the bare ellipsis.
C2_DisplayedAfterRefresh ==
    JustRefreshed =>
        LET r == ToRunes(label.fullText)
        IN  /\ \/ renderer.Text = label.fullText
               \/ \E k \in 0..Len(r) :
                      /\ k < Len(r) \/ k = 0
                      /\ renderer.Text = FromRunes(SubSeq(r, 1, k)) \o ellipsis
            /\ label.truncate /\ renderer.Text # ellipsis =>
                   FLeq(DisplayedWidth, Available(renderer.maxWidth))

\* a refresh cut a text of two runes to its first rune and the ellipsis
C2_Witness ==
    /\ JustRefreshed
    /\ lastCall.op = "Refresh"
    /\ label.truncate
    /\ Len(label.fullText) = 2
    /\ renderer.Text = <<ToRunes(label.fullText)[1], "ELL">>

\* C7 as stated: the text scale of a label is greater than zero in every
\* state; a scale <= 0 given to the constructor or to SetTextScale is stored
\* as 1 and a scale > 0 is stored as given.
C7_TextScalePositive ==
    [][/\ label'.constructed => FGt(label'.textScale, F(0))
       /\ \A tScale \in Scales :
              (SetTextScale(tScale) \/ \E s \in RenderTexts : NewColorLabel(s, Red, Red, tScale))
                  => /\ FLeq(tScale, F(0)) => label'.textScale = F(1)
                     /\ FGt(tScale, F(0)) => label'.textScale = tScale]_vars

Mutators ==
    {"SetText", "SetTextColor", "SetBackgroundColor", "SetTextScale",
     "SetTextStyle", "SetTruncate", "SetTextWithColor"}

\* the render state is the one a refresh computes from the label
RenderStateCurrent ==
    /\ renderer.TextSize = FMul(F(ThemeTextSize), label.textScale)
    /\ renderer.TextStyle = label.textStyle
    /\ renderer.Text =
           truncateText(label, label.fullText, renderer.maxWidth,
                        [TextSize |-> renderer.TextSize,
                         TextStyle |-> renderer.TextStyle])
    /\ renderer.Color = getColor(label.fgColor)
    /\ renderer.FillColor = getColor(label.bgColor)

\* C9 as stated: on a label with a renderer, when a mutator has returned
\* (without an error) the render state has been recomputed from the label.
C9_MutatorsRecompute ==
    renderer.exists /\ lastCall.op \in Mutators /\ lastCall.ret # "error"
        => RenderStateCurrent

(***************************************************************************)
(* Properties of the colours and the constructor (under Spec).             *)
(***************************************************************************)
SupportedTypes == {"string", "ThemeColorName", "NRGBA", "Alpha16", "Gray16"}
Unsupported(c) == c.type \notin SupportedTypes
Named(c) == c.type \in {"string", "ThemeColorName"}
EmptyName(c) == Named(c) /\ c.val = ""
Normalized(c, default) == IF EmptyName(c) THEN default ELSE c

\* C3: SetTextColor and SetBackgroundColor given a value of an unsupported
\* type return an error, leave every field of the label as it was and do not
\* refresh the renderer.
C3_UnsupportedRejected ==
    [][\A c \in ColorArgs :
           Unsupported(c) /\ (SetTextColor(c) \/ SetBackgroundColor(c))
               => /\ lastCall'.ret = "error"
                  /\ label' = label
                  /\ renderer' = renderer]_vars

\* SetTextColor has returned an error on a label whose renderer is out of date
C3_Witness ==
    /\ lastCall = Call("SetTextColor", "error")
    /\ renderer.exists
    /\ renderer # Refresh(renderer, label)

\* C4 as stated: NewColorLabel, SetTextColor and SetBackgroundColor store
\* the default for an empty colour name, a string or a theme colour name:
\* the foreground name for the text, transparent for the background; an
\* empty name is never stored.
C4_EmptyNamesNormalized ==
    [][/\ label'.constructed =>
              ~EmptyName(label'.fgColor) /\ ~EmptyName(label'.bgColor)
       /\ \A c \in ColorArgs :
              EmptyName(c) =>
                  /\ SetTextColor(c) => label'.fgColor = ColorNameForeground
                  /\ SetBackgroundColor(c) => label'.bgColor = Transparent
                  /\ \A s \in Texts, o \in ColorArgs, tScale \in FewScales :
                         /\ NewColorLabel(s, c, o, tScale) /\ label'.constructed
                                => label'.fgColor = ColorNameForeground
                         /\ NewColorLabel(s, o, c, tScale) /\ label'.constructed
                                => label'.bgColor = Transparent]_vars

\* C5 as stated: after SetTextWithColor(t, c) the text of the label is t and
\* its foreground colour resolves to what c resolves to, an empty name
\* resolving as the foreground name.
C5_SetTextWithColorRoundTrip ==
    [][\A t \in Texts, c \in ColorArgs :
           SetTextWithColor(t, c)
               => /\ label'.fullText = t
                  /\ getColor(label'.fgColor)
                         = getColor(Normalized(c, ColorNameForeground))]_vars

\* C6 as stated: NewColorLabel returns nil exactly when one of the colour
\* arguments is of an unsupported type; otherwise the label holds the text,
\* the normalized colours and the normalized scale, truncate off and the
\* default text style.
C6_Constructor ==
    [][\A s \in Texts, txtColor \in ColorArgs, backColor \in ColorArgs,
          tScale \in FewScales :
           NewColorLabel(s, txtColor, backColor, tScale)
               => /\ lastCall'.ret = "nil"
                         <=> (Unsupported(txtColor) \/ Unsupported(backColor))
                  /\ lastCall'.ret = "nil" => ~label'.constructed
                  /\ lastCall'.ret # "nil" =>
                         label' = [constructed |-> TRUE,
                                   fullText |-> s,
                                   fgColor |-> Normalized(txtColor, ColorNameForeground),
                                   bgColor |-> Normalized(backColor, Transparent),
                                   textScale |-> IF FLeq(tScale, F(0)) THEN F(1) ELSE tScale,
                                   textStyle |-> DefaultTextStyle,
                                   truncate |-> FALSE,
                                   lastKeyModifier |-> 0]]_vars

\* what a stored colour is painted as under theme th
Painted(c, th) == IF Named(c) THEN ThemeColor(th, c.val) ELSE c

\* C10: right after every refresh of the renderer the painted foreground
\* and background are the current theme's colours of the stored names, or
\* the stored pixel colours themselves; a refresh or a change of theme
\* leaves the stored colours as they are.
C10_ColoursFollowTheme ==
    [][/\ renderer'.exists /\ Refreshing(lastCall') =>
              /\ renderer'.Color = Painted(label'.fgColor, theme')
              /\ renderer'.FillColor = Painted(label'.bgColor, theme')
       /\ lastCall'.op \in {"Refresh", "ThemeChange"} => label' = label]_vars

\* a refresh under the second theme painted a named foreground in that
\* theme's colour, over a background given as a pixel colour
C10_Witness ==
    /\ lastCall.op = "Refresh"
    /\ theme = "dark"
    /\ Named(label.fgColor)
    /\ ~Named(label.bgColor)
    /\ renderer.Color = ThemeColor("dark", label.fgColor.val)
    /\ renderer.Color # ThemeColor("light", label.fgColor.val)
    /\ renderer.FillColor = label.bgColor

(***************************************************************************)
(* Properties of the gesture handlers (under SpecEvents).                  *)
(***************************************************************************)
\* C8: a gesture handler calls the callback of its own gesture once and no
\* other, calls nothing when that callback is nil, and changes no field.
C8_EventForwarding ==
    [][/\ lastCall'.op = "Tapped" =>
              invoked' = IF OnTapped THEN <<"OnTapped">> ELSE <<>>
       /\ lastCall'.op = "TappedSecondary" =>
              invoked' = IF OnTappedSecondary THEN <<"OnTappedSecondary">> ELSE <<>>
       /\ lastCall'.op = "DoubleTapped" =>
              invoked' = IF OnDoubleTapped THEN <<"OnDoubleTapped">> ELSE <<>>
       /\ lastCall'.op \in {"Tapped", "TappedSecondary", "DoubleTapped"} =>
              UNCHANGED <<label, renderer, theme, OnTapped, OnTappedSecondary,
                          OnDoubleTapped>>]_vars

\* with only the double-tap callback set, a double tap has called it once
C8_Witness ==
    /\ OnDoubleTapped
    /\ ~OnTapped
    /\ ~OnTappedSecondary
    /\ lastCall.op = "DoubleTapped"
    /\ invoked = <<"OnDoubleTapped">>

====
